---- MODULE Spec2Model ----
(***************************************************************************)
(* Model of generate_trading_journal_from_content (src/app.py): the single *)
(* pass over the log lines that builds the trading journal, tracks pending *)
(* orders / open positions, and attributes balance deltas to closes.       *)
(*                                                                         *)
(* Conventions                                                             *)
(*   - Python None for a numeric value is <<>>, a number v is <<v>>;       *)
(*     None for a string field is the string "None".                       *)
(*   - A captured text group is a sequence of one-character strings, so    *)
(*     float() can be modelled by what it does on the characters.          *)
(*   - Money and other decimals are exact integers in hundredths.          *)
(*   - The timestamp string of the k-th line is represented by k (the log  *)
(*     is assumed chronological).                                          *)
(*   - A dict whose values are journal entries (the same objects that are  *)
(*     appended to the journal) is a function from keys to journal         *)
(*     indexes.                                                            *)
(***************************************************************************)
EXTENDS Integers, Sequences, FiniteSets, TLC

VARIABLES
    pc,                           \* "run" (in the loop), "done" (returned), "failed" (except branch)
    line_num,                     \* number of lines consumed so far
    line,                         \* the line handled by the last step
    journal,                      \* list of entries
    open_positions,               \* dict id -> entry
    pending_orders,               \* dict id -> entry
    last_known_balance,           \* None or a balance
    closed_order_ids_pending_pl,  \* list of ids
    account_id,                   \* "N/A" or the first account id seen
    advisories,                   \* st.warning / st.info / st.error calls, in order
    result,                       \* the returned frame's rows
    matched_lines,                \* history: number of consumed lines that matched the envelope and a pattern tried at their level
    balance_log,                  \* history: for each balance update handled, its balance and the balance and pending ids it found
    first_balance_init            \* history: None or the balance of the first "account balance" line handled

vars == <<pc, line_num, line, journal, open_positions, pending_orders,
          last_known_balance, closed_order_ids_pending_pl, account_id,
          advisories, result, matched_lines, balance_log, first_balance_init>>

\* ------------------------------------------------------------------ bounds
MaxLines == 3
MaxAttrLines == 5
MaxOrderLines == 5

\* ------------------------------------------------------------------ values
None == <<>>
Some(v) == <<v>>
NoneStr == "None"

Digits == {"0", "1", "2", "3", "4", "5", "6", "7", "8", "9"}

DigitVal(c) ==
    CASE c = "0" -> 0 [] c = "1" -> 1 [] c = "2" -> 2 [] c = "3" -> 3
      [] c = "4" -> 4 [] c = "5" -> 5 [] c = "6" -> 6 [] c = "7" -> 7
      [] c = "8" -> 8 [] c = "9" -> 9

\* Position of the first "." of a text, Len+1 when there is none.
DotPos(t) ==
    IF \E i \in 1..Len(t) : t[i] = "."
    THEN CHOOSE i \in 1..Len(t) : t[i] = "." /\ \A j \in 1..(i - 1) : t[j] # "."
    ELSE Len(t) + 1

RECURSIVE DigitsToInt(_)
DigitsToInt(t) ==
    IF t = <<>> THEN 0
    ELSE 10 * DigitsToInt(SubSeq(t, 1, Len(t) - 1)) + DigitVal(t[Len(t)])

\* float(text) for a text matched by [\d.]+ : it raises ValueError unless the
\* text has at most one "." and at least one digit.
FloatRaises(t) ==
    \/ Cardinality({i \in 1..Len(t) : t[i] = "."}) > 1
    \/ \A i \in 1..Len(t) : t[i] \notin Digits

\* The value of float(text) in hundredths (texts carry at most two decimals).
FloatOf(t) ==
    LET d    == DotPos(t)
        ip   == SubSeq(t, 1, d - 1)
        fp   == SubSeq(t, d + 1, Len(t))
        frac == IF Len(fp) = 0 THEN 0
                ELSE IF Len(fp) = 1 THEN 10 * DigitVal(fp[1])
                ELSE 10 * DigitVal(fp[1]) + DigitVal(fp[2])
    IN  100 * DigitsToInt(ip) + frac

\* round(x, 2) of a value held in hundredths.
Round2(x) == x

\* str.capitalize() on the words the patterns can capture.
Capitalize(s) ==
    CASE s = "buy" -> "Buy"
      [] s = "sell" -> "Sell"
      [] s = "limit" -> "Limit"
      [] s = "stop" -> "Stop"
      [] s = "Limit/Stop" -> "Limit/stop"
      [] OTHER -> s


\* ------------------------------------------------------------------ input lines
\* A log line after log_line_regex and the message patterns have been applied:
\* env says whether the envelope matched, msg names the message pattern the
\* text of group 4 matches ("other" when it matches none), and the remaining
\* fields are the groups that pattern captures.
Ids == {1, 2}

T1    == <<"1">>
T1p5  == <<"1", ".", "5">>
Tp5   == <<".", "5">>
T2dot == <<"2", ".">>
Bad2Dots == <<"1", ".", "2", ".", "3">>
BadDot   == <<".">>

MkLine(env, level, msg, id, tp, balance) ==
    [env |-> env, level |-> level, account |-> "123", msg |-> msg,
     id |-> id, direction |-> "buy", type_suffix |-> "limit",
     volume |-> T1, instrument |-> "EURUSD", price |-> T1p5,
     tp |-> tp, sl |-> T1, closed_by |-> "tp", details |-> "buy limit",
     balance |-> balance]

NoLine == MkLine(FALSE, "None", "other", 0, T1, T1)

GoodBalances == {T1, T1p5, Tp5}
TpTexts      == {T1, T2dot}

BalanceLines ==
    {MkLine(TRUE, "Service", "balance_init", 0, T1, b) : b \in GoodBalances \cup {Bad2Dots}}
    \cup {MkLine(TRUE, "Trade", "balance_upd", 0, T1, b) : b \in GoodBalances \cup {Bad2Dots}}

CloseLines == {MkLine(TRUE, "Trade", "close", i, T1, T1) : i \in Ids}

ModifyLines ==
    {MkLine(TRUE, "Trade", "modify", i, t, T1) : i \in Ids, t \in TpTexts}
    \cup {[MkLine(TRUE, "Trade", "modify", 1, T1, T1) EXCEPT !.type_suffix = "", !.direction = "sell", !.sl = Tp5]}
    \cup {MkLine(TRUE, "Trade", "modify", 1, BadDot, T1)}

OpenLines ==
    {MkLine(TRUE, "Trade", "open", i, T1, T1) : i \in Ids}
    \cup {[MkLine(TRUE, "Trade", "open", 1, T1, T1) EXCEPT !.volume = Bad2Dots]}

CloseAllOkLines ==
    {MkLine(TRUE, "Trade", "close_all_ok", i, T1, T1) : i \in Ids}
    \cup {[MkLine(TRUE, "Trade", "close_all_ok", 1, T1, T1) EXCEPT !.price = Bad2Dots]}

UserLines ==
    {MkLine(TRUE, "User_action", m, i, T1, T1) : m \in {"delete_req", "delete_ok"}, i \in Ids}
    \cup {MkLine(TRUE, "User_action", "close_all_req", 0, T1, T1)}

\* Lines no branch of the loop acts on.
NoiseLines ==
    {MkLine(FALSE, "None", "other", 0, T1, T1),
     MkLine(TRUE, "Debug", "close", 1, T1, T1),
     MkLine(TRUE, "Service", "open", 1, T1, T1),
     MkLine(TRUE, "Trade", "delete_ok", 1, T1, T1),
     MkLine(TRUE, "User_action", "modify", 1, T1, T1),
     MkLine(TRUE, "Trade", "other", 0, T1, T1)}

AllLines == BalanceLines \cup CloseLines \cup ModifyLines \cup OpenLines
            \cup CloseAllOkLines \cup UserLines \cup NoiseLines

OrderLines == {MkLine(TRUE, "Trade", "modify", i, t, T1) : i \in Ids, t \in TpTexts}
              \cup {[MkLine(TRUE, "Trade", "modify", 1, T1, T1)
                        EXCEPT !.type_suffix = "", !.direction = "sell", !.sl = Tp5]}
              \cup OpenLines
              \cup {MkLine(TRUE, "User_action", "delete_ok", i, T1, T1) : i \in Ids}
              \cup {MkLine(TRUE, "User_action", "delete_req", 1, T1, T1)}

AttrLines == BalanceLines \cup CloseLines
             \cup {MkLine(FALSE, "None", "other", 0, T1, T1)}

\* ------------------------------------------------------------------ helpers
\* The patterns the loop tries on a line of each level.
PatternsOf(level) ==
    CASE level = "Service" -> {"balance_init"}
      [] level = "Trade" -> {"balance_upd", "modify", "open", "close", "close_all_ok"}
      [] level = "User_action" -> {"delete_req", "delete_ok", "close_all_req"}
      [] OTHER -> {}

Matched(l) == l.env /\ l.msg \in PatternsOf(l.level)

\* Variant of the branch test that forgets the level.
Is_AnyLevel(l, level, msg) == l.env /\ l.msg = msg

Is(l, level, msg) == l.env /\ l.level = level /\ l.msg = msg

\* The float() calls of the branch that handles the line: does one raise?
Raises(l) ==
    \/ Is(l, "Service", "balance_init") /\ FloatRaises(l.balance)
    \/ Is(l, "Trade", "balance_upd") /\ FloatRaises(l.balance)
    \/ Is(l, "Trade", "modify") /\ \E t \in {l.volume, l.price, l.tp, l.sl} : FloatRaises(t)
    \/ Is(l, "Trade", "open") /\ \E t \in {l.volume, l.price} : FloatRaises(t)
    \/ Is(l, "Trade", "close") /\ \E t \in {l.price, l.volume} : FloatRaises(t)

\* The entry dict created for every line that matches the envelope.
NewEntry(ts) ==
    [Timestamp |-> ts, OrderPosID |-> None, Action |-> NoneStr,
     Direction |-> NoneStr, Type |-> NoneStr, Instrument |-> NoneStr,
     Volume |-> None, Price |-> None, TP |-> None, SL |-> None,
     Notes |-> <<>>, BalanceAfterClose |-> None, PL |-> None]

\* A piece of a Notes string: fixed words followed by a captured text.
Note(words, captured) == <<words, captured>>

\* Variant of the dict assignment that keeps the value of a key already present.
DictSet_KeepFirst(d, k, v) == [x \in (DOMAIN d) \cup {k} |-> IF x \in DOMAIN d THEN d[x] ELSE v]

\* dict helpers (a dict is a function on the set of its keys)
DictSet(d, k, v) == [x \in (DOMAIN d) \cup {k} |-> IF x = k THEN v ELSE d[x]]
DictDel(d, k) == [x \in (DOMAIN d) \ {k} |-> d[x]]
EmptyDict == [x \in {} |-> 0]

\* Variant that drops every occurrence of x.
ListRemove_All(s, x) ==
    LET keep == {i \in 1..Len(s) : s[i] # x}
        nth(n) == CHOOSE i \in keep : Cardinality({m \in keep : m <= i}) = n
    IN  [n \in 1..Cardinality(keep) |-> s[nth(n)]]

\* list.remove(x): drops the first occurrence of x.
ListRemove(s, x) ==
    LET k == CHOOSE i \in 1..Len(s) : s[i] = x /\ \A j \in 1..(i - 1) : s[j] # x
    IN  SubSeq(s, 1, k - 1) \o SubSeq(s, k + 1, Len(s))

\* What every iteration does before and around its branch: the loop counter,
\* the capture of the first account id, and the bookkeeping of matched lines.
Consume(l) ==
    /\ line' = l
    /\ line_num' = line_num + 1
    /\ account_id' = IF l.env /\ account_id = "N/A" THEN l.account ELSE account_id
    /\ matched_lines' = matched_lines + (IF Matched(l) THEN 1 ELSE 0)
    /\ balance_log' = IF Is(l, "Trade", "balance_upd") /\ ~FloatRaises(l.balance)
                      THEN Append(balance_log,
                                  [Timestamp |-> line_num + 1,
                                   balance |-> FloatOf(l.balance),
                                   pre_balance |-> last_known_balance,
                                   pre_queue |-> closed_order_ids_pending_pl])
                      ELSE balance_log
    /\ first_balance_init' = IF /\ first_balance_init = None
                                /\ Is(l, "Service", "balance_init")
                                /\ ~FloatRaises(l.balance)
                             THEN Some(FloatOf(l.balance))
                             ELSE first_balance_init


\* ------------------------------------------------------------------ attribution
\* Variants of the scan with a slip in it: the first such entry instead of the
\* last; any entry of the id, P/L set or not; any Close entry, whatever its id.
ScanForOpenClose_Oldest(j, closed_id) ==
    LET hits == {i \in 1..Len(j) : /\ j[i].OrderPosID = Some(closed_id)
                                   /\ j[i].Action = "Close"
                                   /\ j[i].PL = None}
    IN  IF hits = {} THEN 0 ELSE CHOOSE i \in hits : \A k \in hits : i <= k

ScanForOpenClose_Reassign(j, closed_id) ==
    LET hits == {i \in 1..Len(j) : /\ j[i].OrderPosID = Some(closed_id)
                                   /\ j[i].Action = "Close"}
    IN  IF hits = {} THEN 0 ELSE CHOOSE i \in hits : \A k \in hits : k <= i

ScanForOpenClose_AnyId(j, closed_id) ==
    LET hits == {i \in 1..Len(j) : /\ j[i].Action = "Close"
                                   /\ j[i].PL = None}
    IN  IF hits = {} THEN 0 ELSE CHOOSE i \in hits : \A k \in hits : k <= i

\* The inner scan of a balance update: the last journal index holding a Close
\* entry of this id whose P/L is still None (0 when there is none).
ScanForOpenClose(j, closed_id) ==
    LET hits == {i \in 1..Len(j) : /\ j[i].OrderPosID = Some(closed_id)
                                   /\ j[i].Action = "Close"
                                   /\ j[i].PL = None}
    IN  IF hits = {} THEN 0 ELSE CHOOSE i \in hits : \A k \in hits : k <= i

\* Variant of the outer loop that serves the newest pending id first.
FirstAttributable_Newest(j, q) ==
    LET ok == {k \in 1..Len(q) : \E i \in 1..Len(j) : /\ j[i].OrderPosID = Some(q[k])
                                                      /\ j[i].Action = "Close"
                                                      /\ j[i].PL = None}
    IN  IF ok = {} THEN 0 ELSE CHOOSE k \in ok : \A m \in ok : m <= k

\* The outer loop over the copy of the pending ids: the position in the list
\* of the first id the scan succeeds for (0 when it succeeds for none).
FirstAttributable(j, q) ==
    LET ok == {k \in 1..Len(q) : ScanForOpenClose(j, q[k]) # 0}
    IN  IF ok = {} THEN 0 ELSE CHOOSE k \in ok : \A m \in ok : k <= m

\* Variant that reports a change on every update.
BalanceChanged_Always(current_balance, last_balance) == TRUE

\* `current_balance != last_known_balance`
BalanceChanged(current_balance, last_balance) == current_balance # last_balance

\* Variant that stores the new balance instead of the difference.
TradePl_Absolute(current_balance, last_balance) == Round2(current_balance)

\* trade_pl, rounded as it is stored
TradePl(current_balance, last_balance) == Round2(current_balance - last_balance)

Warning(ts, delta, ids) == [severity |-> "warning", Timestamp |-> ts, delta |-> Some(delta), ids |-> ids]
Info(ts, delta)         == [severity |-> "info", Timestamp |-> ts, delta |-> Some(delta), ids |-> <<>>]
Error(ts)               == [severity |-> "error", Timestamp |-> ts, delta |-> None, ids |-> <<>>]

\* ------------------------------------------------------------------ the run
Init ==
    /\ pc = "run"
    /\ line_num = 0
    /\ line = NoLine
    /\ journal = <<>>
    /\ open_positions = EmptyDict
    /\ pending_orders = EmptyDict
    /\ last_known_balance = None
    /\ closed_order_ids_pending_pl = <<>>
    /\ account_id = "N/A"
    /\ advisories = <<>>
    /\ result = <<>>
    /\ matched_lines = 0
    /\ balance_log = <<>>
    /\ first_balance_init = None

\* `if not match: continue`
SkipLine(l) ==
    /\ pc = "run"
    /\ ~l.env
    /\ Consume(l)
    /\ UNCHANGED <<pc, journal, open_positions, pending_orders, last_known_balance,
                   closed_order_ids_pending_pl, advisories, result>>

\* The envelope matched but no pattern tried at the line's level did.
UnrecognizedLine(l) ==
    /\ pc = "run"
    /\ l.env
    /\ ~Matched(l)
    /\ Consume(l)
    /\ UNCHANGED <<pc, journal, open_positions, pending_orders, last_known_balance,
                   closed_order_ids_pending_pl, advisories, result>>

\* Variant with the "Balance Found" marker entry appended for the first balance.
ServiceBalanceInit_Marker(l) ==
    /\ pc = "run"
    /\ Is(l, "Service", "balance_init")
    /\ ~Raises(l)
    /\ Consume(l)
    /\ last_known_balance' = IF last_known_balance = None
                             THEN Some(FloatOf(l.balance))
                             ELSE last_known_balance
    /\ journal' = IF last_known_balance = None
                  THEN Append(journal, [NewEntry(line_num + 1) EXCEPT
                                          !.Action = "Balance Found",
                                          !.Price = Some(FloatOf(l.balance))])
                  ELSE journal
    /\ UNCHANGED <<pc, open_positions, pending_orders,
                   closed_order_ids_pending_pl, advisories, result>>

\* Variant that takes every "account balance" line as the new running balance.
ServiceBalanceInit_Overwrite(l) ==
    /\ pc = "run"
    /\ Is(l, "Service", "balance_init")
    /\ ~Raises(l)
    /\ Consume(l)
    /\ last_known_balance' = Some(FloatOf(l.balance))
    /\ UNCHANGED <<pc, journal, open_positions, pending_orders,
                   closed_order_ids_pending_pl, advisories, result>>

\* level == "Service" and rgx_balance_init matched
ServiceBalanceInit(l) ==
    /\ pc = "run"
    /\ Is(l, "Service", "balance_init")
    /\ ~Raises(l)
    /\ Consume(l)
    /\ last_known_balance' = IF last_known_balance = None
                             THEN Some(FloatOf(l.balance))
                             ELSE last_known_balance
    /\ UNCHANGED <<pc, journal, open_positions, pending_orders,
                   closed_order_ids_pending_pl, advisories, result>>

\* Variant without the `last_known_balance is not None` tests: an unknown
\* running balance counts as 0.
TradeBalanceUpdate_NoBaseline(l) ==
    /\ pc = "run"
    /\ Is(l, "Trade", "balance_upd")
    /\ ~Raises(l)
    /\ Consume(l)
    /\ LET ts == line_num + 1
           current_balance == FloatOf(l.balance)
           last == IF last_known_balance = None THEN 0 ELSE last_known_balance[1]
           q == closed_order_ids_pending_pl
           k == FirstAttributable(journal, q)
           i == ScanForOpenClose(journal, q[k])
       IN  IF q # <<>>
           THEN IF k # 0
                THEN /\ journal' = [journal EXCEPT
                                      ![i].BalanceAfterClose = Some(current_balance),
                                      ![i].PL = Some(TradePl(current_balance, last))]
                     /\ closed_order_ids_pending_pl' = ListRemove(q, q[k])
                     /\ advisories' = advisories
                ELSE IF BalanceChanged(current_balance, last)
                THEN /\ advisories' = Append(advisories,
                                             Warning(ts, Round2(current_balance - last), q))
                     /\ closed_order_ids_pending_pl' = <<>>
                     /\ journal' = journal
                ELSE UNCHANGED <<journal, closed_order_ids_pending_pl, advisories>>
           ELSE IF BalanceChanged(current_balance, last)
           THEN /\ advisories' = Append(advisories, Info(ts, Round2(current_balance - last)))
                /\ UNCHANGED <<journal, closed_order_ids_pending_pl>>
           ELSE UNCHANGED <<journal, closed_order_ids_pending_pl, advisories>>
    /\ last_known_balance' = Some(FloatOf(l.balance))
    /\ UNCHANGED <<pc, open_positions, pending_orders, result>>

\* level == "Trade" and rgx_balance_upd matched
TradeBalanceUpdate(l) ==
    /\ pc = "run"
    /\ Is(l, "Trade", "balance_upd")
    /\ ~Raises(l)
    /\ Consume(l)
    /\ LET ts == line_num + 1
           current_balance == FloatOf(l.balance)
           q == closed_order_ids_pending_pl
           k == FirstAttributable(journal, q)
           i == ScanForOpenClose(journal, q[k])
       IN  IF last_known_balance # None /\ q # <<>>
           THEN IF k # 0
                THEN /\ journal' = [journal EXCEPT
                                      ![i].BalanceAfterClose = Some(current_balance),
                                      ![i].PL = Some(TradePl(current_balance, last_known_balance[1]))]
                     /\ closed_order_ids_pending_pl' = ListRemove(q, q[k])
                     /\ advisories' = advisories
                ELSE IF BalanceChanged(current_balance, last_known_balance[1])
                THEN /\ advisories' = Append(advisories,
                                             Warning(ts, Round2(current_balance - last_known_balance[1]), q))
                     /\ closed_order_ids_pending_pl' = <<>>
                     /\ journal' = journal
                ELSE UNCHANGED <<journal, closed_order_ids_pending_pl, advisories>>
           ELSE IF last_known_balance # None /\ BalanceChanged(current_balance, last_known_balance[1]) /\ q = <<>>
           THEN /\ advisories' = Append(advisories,
                                        Info(ts, Round2(current_balance - last_known_balance[1])))
                /\ UNCHANGED <<journal, closed_order_ids_pending_pl>>
           ELSE UNCHANGED <<journal, closed_order_ids_pending_pl, advisories>>
    /\ last_known_balance' = Some(FloatOf(l.balance))
    /\ UNCHANGED <<pc, open_positions, pending_orders, result>>

\* rgx_modify matched
TradeModify(l) ==
    /\ pc = "run"
    /\ Is(l, "Trade", "modify")
    /\ ~Raises(l)
    /\ Consume(l)
    /\ LET entry == [NewEntry(line_num + 1) EXCEPT
                       !.OrderPosID = Some(l.id),
                       !.Action = "Place/Mod",
                       !.Direction = Capitalize(l.direction),
                       !.Type = Capitalize(IF l.type_suffix # "" THEN l.type_suffix ELSE "Limit/Stop"),
                       !.Instrument = l.instrument,
                       !.Volume = Some(FloatOf(l.volume)),
                       !.Price = Some(FloatOf(l.price)),
                       !.TP = Some(FloatOf(l.tp)),
                       !.SL = Some(FloatOf(l.sl))]
       IN  /\ journal' = Append(journal, entry)
           /\ pending_orders' = DictSet(pending_orders, l.id, Len(journal) + 1)
    /\ UNCHANGED <<pc, open_positions, last_known_balance,
                   closed_order_ids_pending_pl, advisories, result>>

\* Variant that marks the fill but forgets to copy TP and SL.
OpenFromPending_NoCopy(j, pending, id) ==
    IF id \in DOMAIN pending
    THEN [Type |-> "Limit Hit", TP |-> None, SL |-> None]
    ELSE [Type |-> "Market?/Gap?", TP |-> None, SL |-> None]

\* The Open entry's Type, TP and SL: taken from the pending order when there is one.
OpenFromPending(j, pending, id) ==
    IF id \in DOMAIN pending
    THEN [Type |-> "Limit Hit", TP |-> j[pending[id]].TP, SL |-> j[pending[id]].SL]
    ELSE [Type |-> "Market?/Gap?", TP |-> None, SL |-> None]

\* rgx_open matched
TradeOpen(l) ==
    /\ pc = "run"
    /\ Is(l, "Trade", "open")
    /\ ~Raises(l)
    /\ Consume(l)
    /\ LET from  == OpenFromPending(journal, pending_orders, l.id)
           entry == [NewEntry(line_num + 1) EXCEPT
                       !.OrderPosID = Some(l.id),
                       !.Action = "Open",
                       !.Direction = Capitalize(l.direction),
                       !.Type = from.Type,
                       !.TP = from.TP,
                       !.SL = from.SL,
                       !.Instrument = l.instrument,
                       !.Volume = Some(FloatOf(l.volume)),
                       !.Price = Some(FloatOf(l.price))]
       IN  /\ journal' = Append(journal, entry)
           /\ pending_orders' = DictDel(pending_orders, l.id)
           /\ open_positions' = DictSet(open_positions, l.id, Len(journal) + 1)
    /\ UNCHANGED <<pc, last_known_balance, closed_order_ids_pending_pl, advisories, result>>

\* Variant that marks a close for P/L only when the position was seen opening.
TradeClose_OnlyIfOpen(l) ==
    /\ pc = "run"
    /\ Is(l, "Trade", "close")
    /\ ~Raises(l)
    /\ Consume(l)
    /\ LET entry == [NewEntry(line_num + 1) EXCEPT
                       !.OrderPosID = Some(l.id),
                       !.Action = "Close",
                       !.Direction = Capitalize(l.direction),
                       !.Price = Some(FloatOf(l.price)),
                       !.Instrument = l.instrument,
                       !.Volume = Some(FloatOf(l.volume)),
                       !.Notes = <<Note("Closed by ", <<l.closed_by>>)>>]
       IN  /\ journal' = Append(journal, entry)
           /\ open_positions' = DictDel(open_positions, l.id)
           /\ closed_order_ids_pending_pl' =
                 IF l.id \in DOMAIN open_positions
                 THEN Append(closed_order_ids_pending_pl, l.id)
                 ELSE closed_order_ids_pending_pl
    /\ UNCHANGED <<pc, pending_orders, last_known_balance, advisories, result>>

\* rgx_close matched
TradeClose(l) ==
    /\ pc = "run"
    /\ Is(l, "Trade", "close")
    /\ ~Raises(l)
    /\ Consume(l)
    /\ LET entry == [NewEntry(line_num + 1) EXCEPT
                       !.OrderPosID = Some(l.id),
                       !.Action = "Close",
                       !.Direction = Capitalize(l.direction),
                       !.Price = Some(FloatOf(l.price)),
                       !.Instrument = l.instrument,
                       !.Volume = Some(FloatOf(l.volume)),
                       !.Notes = <<Note("Closed by ", <<l.closed_by>>)>>]
       IN  /\ journal' = Append(journal, entry)
           /\ open_positions' = DictDel(open_positions, l.id)
           /\ closed_order_ids_pending_pl' = Append(closed_order_ids_pending_pl, l.id)
    /\ UNCHANGED <<pc, pending_orders, last_known_balance, advisories, result>>

\* Variant of the scan that stops at the first Close entry of the id.
LastCloseOf_Oldest(j, id) ==
    LET hits == {i \in 1..Len(j) : j[i].OrderPosID = Some(id) /\ j[i].Action = "Close"}
    IN  IF hits = {} THEN 0 ELSE CHOOSE i \in hits : \A k \in hits : i <= k

\* The reverse scan of a close-all confirmation: the last Close entry of the id (0 if none).
LastCloseOf(j, id) ==
    LET hits == {i \in 1..Len(j) : j[i].OrderPosID = Some(id) /\ j[i].Action = "Close"}
    IN  IF hits = {} THEN 0 ELSE CHOOSE i \in hits : \A k \in hits : k <= i

\* Variant that assigns the confirmation note instead of appending it.
TradeCloseAllOk_Overwrite(l) ==
    /\ pc = "run"
    /\ Is(l, "Trade", "close_all_ok")
    /\ Consume(l)
    /\ LET entry == [NewEntry(line_num + 1) EXCEPT
                       !.OrderPosID = Some(l.id),
                       !.Action = "Close OK",
                       !.Notes = <<Note("Part of Close All. Confirmed @ ", l.price)>>]
           hits == {k \in 1..Len(journal) : /\ journal[k].OrderPosID = Some(l.id)
                                            /\ journal[k].Action = "Close"}
           i == IF hits = {} THEN 0 ELSE CHOOSE k \in hits : \A m \in hits : m <= k
       IN  IF i # 0
           THEN journal' = [journal EXCEPT ![i].Notes = <<Note(". Close OK @ ", l.price)>>]
           ELSE journal' = Append(journal, entry)
    /\ UNCHANGED <<pc, open_positions, pending_orders, last_known_balance,
                   closed_order_ids_pending_pl, advisories, result>>

\* rgx_close_all_ok matched (the price stays text: no float() here)
TradeCloseAllOk(l) ==
    /\ pc = "run"
    /\ Is(l, "Trade", "close_all_ok")
    /\ Consume(l)
    /\ LET entry == [NewEntry(line_num + 1) EXCEPT
                       !.OrderPosID = Some(l.id),
                       !.Action = "Close OK",
                       !.Notes = <<Note("Part of Close All. Confirmed @ ", l.price)>>]
           i == LastCloseOf(journal, l.id)
       IN  IF i # 0
           THEN journal' = [journal EXCEPT ![i].Notes = Append(@, Note(". Close OK @ ", l.price))]
           ELSE journal' = Append(journal, entry)
    /\ UNCHANGED <<pc, open_positions, pending_orders, last_known_balance,
                   closed_order_ids_pending_pl, advisories, result>>

\* rgx_delete_req matched
UserDeleteReq(l) ==
    /\ pc = "run"
    /\ Is(l, "User_action", "delete_req")
    /\ Consume(l)
    /\ journal' = Append(journal, [NewEntry(line_num + 1) EXCEPT
                                     !.OrderPosID = Some(l.id),
                                     !.Action = "Delete Req",
                                     !.Notes = <<Note("User: ", <<l.details>>)>>])
    /\ UNCHANGED <<pc, open_positions, pending_orders, last_known_balance,
                   closed_order_ids_pending_pl, advisories, result>>

\* rgx_delete_ok matched
UserDeleteOk(l) ==
    /\ pc = "run"
    /\ Is(l, "User_action", "delete_ok")
    /\ Consume(l)
    /\ journal' = Append(journal, [NewEntry(line_num + 1) EXCEPT
                                     !.OrderPosID = Some(l.id),
                                     !.Action = "Delete OK",
                                     !.Notes = <<Note("Success: ", <<l.details>>)>>])
    /\ pending_orders' = DictDel(pending_orders, l.id)
    /\ UNCHANGED <<pc, open_positions, last_known_balance,
                   closed_order_ids_pending_pl, advisories, result>>

\* rgx_close_all_req matched
UserCloseAllReq(l) ==
    /\ pc = "run"
    /\ Is(l, "User_action", "close_all_req")
    /\ Consume(l)
    /\ journal' = Append(journal, [NewEntry(line_num + 1) EXCEPT
                                     !.Action = "Close All Req",
                                     !.Notes = <<Note("User requested close all", <<>>)>>])
    /\ UNCHANGED <<pc, open_positions, pending_orders, last_known_balance,
                   closed_order_ids_pending_pl, advisories, result>>

\* Variant of the except branch that returns the entries collected so far.
ExceptBranch_Partial(l) ==
    /\ pc = "run"
    /\ Raises(l)
    /\ Consume(l)
    /\ pc' = "failed"
    /\ advisories' = Append(advisories, Error(line_num + 1))
    /\ result' = journal
    /\ pending_orders' = IF l.msg = "open" THEN DictDel(pending_orders, l.id) ELSE pending_orders
    /\ UNCHANGED <<journal, open_positions, last_known_balance, closed_order_ids_pending_pl>>

\* `except Exception`: a float() of the line's branch raised. The open branch
\* has already dropped the pending order when its float() calls are reached.
ExceptBranch(l) ==
    /\ pc = "run"
    /\ Raises(l)
    /\ Consume(l)
    /\ pc' = "failed"
    /\ advisories' = Append(advisories, Error(line_num + 1))
    /\ result' = <<>>
    /\ pending_orders' = IF l.msg = "open" THEN DictDel(pending_orders, l.id) ELSE pending_orders
    /\ UNCHANGED <<journal, open_positions, last_known_balance, closed_order_ids_pending_pl>>

\* The loop is over: the journal becomes the returned frame.
Finish ==
    /\ pc = "run"
    /\ pc' = "done"
    /\ result' = journal
    /\ UNCHANGED <<line_num, line, journal, open_positions, pending_orders, last_known_balance,
                   closed_order_ids_pending_pl, account_id, advisories, matched_lines, balance_log,
                   first_balance_init>>

Next ==
    \/ \E l \in AllLines : line_num < MaxLines /\ SkipLine(l)
    \/ \E l \in AllLines : line_num < MaxLines /\ UnrecognizedLine(l)
    \/ \E l \in AllLines : line_num < MaxLines /\ ServiceBalanceInit(l)
    \/ \E l \in AllLines : line_num < MaxLines /\ TradeBalanceUpdate(l)
    \/ \E l \in AllLines : line_num < MaxLines /\ TradeModify(l)
    \/ \E l \in AllLines : line_num < MaxLines /\ TradeOpen(l)
    \/ \E l \in AllLines : line_num < MaxLines /\ TradeClose(l)
    \/ \E l \in AllLines : line_num < MaxLines /\ TradeCloseAllOk(l)
    \/ \E l \in AllLines : line_num < MaxLines /\ UserDeleteReq(l)
    \/ \E l \in AllLines : line_num < MaxLines /\ UserDeleteOk(l)
    \/ \E l \in AllLines : line_num < MaxLines /\ UserCloseAllReq(l)
    \/ \E l \in AllLines : line_num < MaxLines /\ ExceptBranch(l)
    \/ Finish

Spec == Init /\ [][Next]_vars

\* The same run over logs that hold only balance lines, closes and noise.
NextAttr ==
    \/ \E l \in AttrLines : line_num < MaxAttrLines /\ SkipLine(l)
    \/ \E l \in AttrLines : line_num < MaxAttrLines /\ ServiceBalanceInit(l)
    \/ \E l \in AttrLines : line_num < MaxAttrLines /\ TradeBalanceUpdate(l)
    \/ \E l \in AttrLines : line_num < MaxAttrLines /\ TradeClose(l)
    \/ \E l \in AttrLines : line_num < MaxAttrLines /\ ExceptBranch(l)
    \/ Finish

SpecAttr == Init /\ [][NextAttr]_vars

\* The same run over logs that hold only order placements, fills and deletions.
NextOrders ==
    \/ \E l \in OrderLines : line_num < MaxOrderLines /\ TradeModify(l)
    \/ \E l \in OrderLines : line_num < MaxOrderLines /\ TradeOpen(l)
    \/ \E l \in OrderLines : line_num < MaxOrderLines /\ UserDeleteReq(l)
    \/ \E l \in OrderLines : line_num < MaxOrderLines /\ UserDeleteOk(l)
    \/ \E l \in OrderLines : line_num < MaxOrderLines /\ ExceptBranch(l)
    \/ Finish

SpecOrders == Init /\ [][NextOrders]_vars

\* ================================================================== properties
\* A step that handled a balance update whose balance parsed.
IsBalanceUpdateStep ==
    /\ pc = "run"
    /\ line_num' = line_num + 1
    /\ Is(line', "Trade", "balance_upd")
    /\ ~FloatRaises(line'.balance)

\* The journal entry appended by the line with this number (each line appends at most one).
EntryOfLine(n) == CHOOSE i \in 1..Len(journal) : journal[i].Timestamp = n
HasEntryOfLine(n) == \E i \in 1..Len(journal) : journal[i].Timestamp = n
IsCloseEntryOf(n, id) ==
    /\ HasEntryOfLine(n)
    /\ journal[EntryOfLine(n)].Action = "Close"
    /\ journal[EntryOfLine(n)].OrderPosID = Some(id)

InSeq(x, q) == \E k \in 1..Len(q) : q[k] = x

\* ------------------------------------------------------------------ C1
\* C1 (as claimed): when the two lines before a balance update were closes of
\* two distinct ids and a running balance is known, the update gives no entry
\* a P/L and emits exactly one advisory, which names both ids.
C1_AmbiguityFallback ==
    [][ ( /\ IsBalanceUpdateStep
          /\ last_known_balance # None
          /\ Len(journal) >= 2
          /\ journal[Len(journal) - 1].Action = "Close"
          /\ journal[Len(journal)].Action = "Close"
          /\ journal[Len(journal) - 1].Timestamp = line_num - 1
          /\ journal[Len(journal)].Timestamp = line_num
          /\ journal[Len(journal) - 1].OrderPosID # journal[Len(journal)].OrderPosID )
        =>
        ( /\ \A i \in 1..Len(journal) : journal[i].PL = None => journal'[i].PL = None
          /\ Len(advisories') = Len(advisories) + 1
          /\ InSeq(journal[Len(journal) - 1].OrderPosID[1], advisories'[Len(advisories')].ids)
          /\ InSeq(journal[Len(journal)].OrderPosID[1], advisories'[Len(advisories')].ids) )
      ]_vars

\* ------------------------------------------------------------------ C2
\* Two consecutive balance updates u1, u2 that directly follow two consecutive
\* closes (of ids a then b) found by u1 as the only pending ids, with a running
\* balance known at u1.
FifoCase(k, a, b) ==
    /\ k \in 1..(Len(balance_log) - 1)
    /\ balance_log[k + 1].Timestamp = balance_log[k].Timestamp + 1
    /\ balance_log[k].pre_balance # None
    /\ balance_log[k].pre_queue = <<a, b>>
    /\ IsCloseEntryOf(balance_log[k].Timestamp - 2, a)
    /\ IsCloseEntryOf(balance_log[k].Timestamp - 1, b)

FifoResult(k) ==
    /\ journal[EntryOfLine(balance_log[k].Timestamp - 2)].PL
         = Some(balance_log[k].balance - balance_log[k].pre_balance[1])
    /\ journal[EntryOfLine(balance_log[k].Timestamp - 1)].PL
         = Some(balance_log[k + 1].balance - balance_log[k].balance)

\* C2 (as claimed, any two ids): the first close's entry gets the first
\* update's delta and the second close's entry the second update's delta.
C2_FifoAnyIds ==
    \A k \in 1..Len(balance_log) : \A a \in Ids, b \in Ids :
        FifoCase(k, a, b) => FifoResult(k)

\* C2 (amended): the same for two distinct ids.
C2_FifoDistinctIds ==
    \A k \in 1..Len(balance_log) : \A a \in Ids, b \in Ids :
        (a # b /\ FifoCase(k, a, b)) => FifoResult(k)

C2_Witness ==
    \E k \in 1..Len(balance_log) : \E a \in Ids, b \in Ids :
        /\ a # b
        /\ FifoCase(k, a, b)
        /\ balance_log[k].balance # balance_log[k].pre_balance[1]
        /\ balance_log[k + 1].balance # balance_log[k].balance
        /\ balance_log[k + 1].balance # balance_log[k].pre_balance[1]

\* ------------------------------------------------------------------ C3
CloseEntriesWithPl(id) ==
    {i \in 1..Len(journal) : /\ journal[i].OrderPosID = Some(id)
                             /\ journal[i].Action = "Close"
                             /\ journal[i].PL # None}

\* C3 (as claimed): per order id at most one Close entry carries a P/L.
C3_OnePlPerId == \A id \in Ids : Cardinality(CloseEntriesWithPl(id)) <= 1

\* The balance updates that were handled with a running balance known while
\* this id was the oldest pending one.
UpdatesAtHead(id) ==
    {k \in 1..Len(balance_log) : /\ balance_log[k].pre_balance # None
                                 /\ balance_log[k].pre_queue # <<>>
                                 /\ Head(balance_log[k].pre_queue) = id}

\* C3 (amended): per order id, the Close entries that carry a P/L are at most
\* as many as the balance updates handled (with a running balance known) while
\* the id was the oldest pending one, and only Close entries carry a P/L.
C3_OnePlPerUpdate ==
    /\ \A id \in Ids : Cardinality(CloseEntriesWithPl(id)) <= Cardinality(UpdatesAtHead(id))
    /\ \A i \in 1..Len(journal) : journal[i].PL # None => journal[i].Action = "Close"

C3_Witness == \E id \in Ids : Cardinality(CloseEntriesWithPl(id)) = 2

\* ------------------------------------------------------------------ C4
\* The texts a message pattern captures with [\d.]+ for a decimal.
NumericGroups(l) ==
    CASE l.msg \in {"balance_init", "balance_upd"} -> {l.balance}
      [] l.msg = "modify" -> {l.volume, l.price, l.tp, l.sl}
      [] l.msg \in {"open", "close"} -> {l.volume, l.price}
      [] l.msg = "close_all_ok" -> {l.price}
      [] OTHER -> {}

MalformedNumber(l) == Matched(l) /\ \E t \in NumericGroups(l) : FloatRaises(t)

\* C4 (as claimed): a line whose pattern matches but whose decimal does not
\* parse changes no state and does not end the run.
C4_MalformedLineSkipped ==
    [][ (pc = "run" /\ line_num' = line_num + 1 /\ MalformedNumber(line'))
        =>
        ( /\ pc' = "run"
          /\ UNCHANGED <<journal, open_positions, pending_orders, last_known_balance,
                         closed_order_ids_pending_pl, advisories, result>> )
      ]_vars

C6_PlNeverReassigned ==
    [][ \A i \in 1..Len(journal) :
          journal[i].PL # None =>
            /\ i <= Len(journal')
            /\ journal'[i].PL = journal[i].PL
            /\ journal'[i].BalanceAfterClose = journal[i].BalanceAfterClose
      ]_vars

\* An entry got its P/L, a later update was attributed to a second close of
\* the same id, and the first entry still shows the earlier balance.
C6_Witness ==
    \E i \in 1..Len(journal) : \E m \in 1..Len(journal) :
        /\ i # m
        /\ journal[i].PL # None
        /\ journal[m].PL # None
        /\ journal[i].OrderPosID = journal[m].OrderPosID
        /\ journal[i].BalanceAfterClose # last_known_balance
        /\ journal[m].BalanceAfterClose = last_known_balance

\* ------------------------------------------------------------------ C7
IsOpenStep ==
    /\ pc = "run"
    /\ line_num' = line_num + 1
    /\ Is(line', "Trade", "open")
    /\ ~Raises(line')

PlaceModsOf(id) ==
    {i \in 1..Len(journal) : journal[i].OrderPosID = Some(id) /\ journal[i].Action = "Place/Mod"}

\* C7: an open of id X appends one Open entry; if X is a pending order the
\* entry has Type "Limit Hit" and the TP and SL of X's last Place/Mod entry,
\* otherwise Type "Market?/Gap?" and no TP and SL; X is not pending afterwards.
C7_OpenFromPending ==
    [][ IsOpenStep =>
        LET X == line'.id
            rec == journal'[Len(journal')]
        IN  /\ Len(journal') = Len(journal) + 1
            /\ SubSeq(journal', 1, Len(journal)) = journal
            /\ rec.Action = "Open"
            /\ rec.OrderPosID = Some(X)
            /\ X \notin DOMAIN pending_orders'
            /\ IF X \in DOMAIN pending_orders
               THEN /\ rec.Type = "Limit Hit"
                    /\ \E i \in PlaceModsOf(X) :
                         /\ \A k \in PlaceModsOf(X) : k <= i
                         /\ rec.TP = journal[i].TP
                         /\ rec.SL = journal[i].SL
               ELSE /\ rec.Type = "Market?/Gap?"
                    /\ rec.TP = None
                    /\ rec.SL = None
      ]_vars

\* An order placed twice with different TP was filled: the Open entry has the later TP.
C7_Witness ==
    /\ Is(line, "Trade", "open")
    /\ Len(journal) >= 3
    /\ journal[Len(journal)].Action = "Open"
    /\ journal[Len(journal)].Timestamp = line_num
    /\ journal[Len(journal)].Type = "Limit Hit"
    /\ \E i \in 1..Len(journal) : \E k \in 1..Len(journal) :
         /\ i < k
         /\ journal[i].Action = "Place/Mod"
         /\ journal[k].Action = "Place/Mod"
         /\ journal[i].OrderPosID = journal[Len(journal)].OrderPosID
         /\ journal[k].OrderPosID = journal[Len(journal)].OrderPosID
         /\ journal[i].TP # journal[k].TP
         /\ journal[k].TP = journal[Len(journal)].TP

\* ------------------------------------------------------------------ C8
\* C8: a balance update B handled with a running balance R known and no id
\* pending emits one informational advisory if B differs from R and none if
\* B equals R; it changes no entry and the list of pending ids stays empty.
C8_DriftAdvisory ==
    [][ (IsBalanceUpdateStep /\ last_known_balance # None /\ closed_order_ids_pending_pl = <<>>)
        =>
        LET B == FloatOf(line'.balance)
            R == last_known_balance[1]
        IN  /\ journal' = journal
            /\ closed_order_ids_pending_pl' = <<>>
            /\ IF B # R
               THEN /\ Len(advisories') = Len(advisories) + 1
                    /\ SubSeq(advisories', 1, Len(advisories)) = advisories
                    /\ advisories'[Len(advisories')].severity = "info"
               ELSE advisories' = advisories
      ]_vars

\* Both cases happened in one run: an update equal to the running balance
\* (no advisory) and one that differs (one advisory), no close ever pending.
C8_Witness ==
    /\ Len(balance_log) >= 3
    /\ \A k \in 1..Len(balance_log) : balance_log[k].pre_queue = <<>>
    /\ \E k \in 1..Len(balance_log) : balance_log[k].pre_balance = Some(balance_log[k].balance)
    /\ Len(advisories) = 1
    /\ advisories[1].severity = "info"

\* ------------------------------------------------------------------ C9
\* C9: the journal never has more entries than lines that matched the envelope
\* and a pattern; a line appends at most one entry and removes none, and a
\* balance line or an unmatched line appends none.
C9_RecordCount ==
    /\ [](Len(journal) <= matched_lines)
    /\ [][ /\ Len(journal') >= Len(journal)
           /\ Len(journal') <= Len(journal) + 1
           /\ (line_num' = line_num + 1
                 /\ (~Matched(line') \/ line'.msg \in {"balance_init", "balance_upd"}))
              => Len(journal') = Len(journal)
         ]_vars

\* A run with a balance line, an unmatched line and an appended entry.
C9_Witness ==
    /\ journal # <<>>
    /\ matched_lines > Len(journal)
    /\ line_num > matched_lines

C11_RunningBalance ==
    /\ [](last_known_balance = IF balance_log # <<>>
                               THEN Some(balance_log[Len(balance_log)].balance)
                               ELSE first_balance_init)
    /\ [][ ( /\ pc = "run"
             /\ line_num' = line_num + 1
             /\ Is(line', "Service", "balance_init")
             /\ ~FloatRaises(line'.balance)
             /\ last_known_balance # None )
           =>
           UNCHANGED <<pc, journal, open_positions, pending_orders, last_known_balance,
                       closed_order_ids_pending_pl, advisories, result>>
         ]_vars

\* An "account balance" line with another balance was handled after a balance
\* update, and earlier a first one had seeded the running balance.
C11_Witness ==
    /\ Is(line, "Service", "balance_init")
    /\ pc = "run"
    /\ balance_log # <<>>
    /\ balance_log[1].pre_balance = first_balance_init
    /\ first_balance_init # None
    /\ Some(FloatOf(line.balance)) # last_known_balance
    /\ Some(FloatOf(line.balance)) # first_balance_init
    /\ first_balance_init # last_known_balance

\* ------------------------------------------------------------------ C12
IsCloseAllOkStep ==
    /\ pc = "run"
    /\ line_num' = line_num + 1
    /\ Is(line', "Trade", "close_all_ok")

\* The fields of an entry that are set when it is created and never afterwards.
FixedFields(e) ==
    <<e.Timestamp, e.OrderPosID, e.Action, e.Direction, e.Type, e.Instrument,
      e.Volume, e.Price, e.TP, e.SL>>

\* C12: no step removes an entry or changes a field of an existing entry,
\* except P/L and Balance After Close (only in a balance-update step) and
\* Notes (only in a close-all confirmation step, and only by appending); the
\* Place/Mod entry a pending order refers to is not changed at all.
C12_EntryFrame ==
    [][ /\ \A i \in 1..Len(journal) :
             /\ i <= Len(journal')
             /\ FixedFields(journal'[i]) = FixedFields(journal[i])
             /\ ( \/ journal'[i].PL # journal[i].PL
                  \/ journal'[i].BalanceAfterClose # journal[i].BalanceAfterClose )
                => IsBalanceUpdateStep
             /\ journal'[i].Notes # journal[i].Notes
                => /\ IsCloseAllOkStep
                   /\ Len(journal'[i].Notes) > Len(journal[i].Notes)
                   /\ SubSeq(journal'[i].Notes, 1, Len(journal[i].Notes)) = journal[i].Notes
        /\ \A X \in DOMAIN pending_orders :
             /\ pending_orders[X] <= Len(journal')
             /\ journal'[pending_orders[X]] = journal[pending_orders[X]]
      ]_vars

\* A Close entry got a confirmation note while an order was pending.
C12_Witness ==
    /\ DOMAIN pending_orders # {}
    /\ \E i \in 1..Len(journal) : journal[i].Action = "Close" /\ Len(journal[i].Notes) = 2

\* ------------------------------------------------------------------ C13
IsCloseStep ==
    /\ pc = "run"
    /\ line_num' = line_num + 1
    /\ Is(line', "Trade", "close")
    /\ ~Raises(line')

\* C13: a close of id X appends exactly one Close entry with no P/L and no
\* Balance After Close and appends X to the pending ids, whether or not X is
\* an open position; afterwards X is no open position (other ids are kept).
C13_CloseAppendsAndQueues ==
    [][ IsCloseStep =>
        LET X == line'.id
            rec == journal'[Len(journal')]
        IN  /\ Len(journal') = Len(journal) + 1
            /\ SubSeq(journal', 1, Len(journal)) = journal
            /\ rec.Action = "Close"
            /\ rec.OrderPosID = Some(X)
            /\ rec.PL = None
            /\ rec.BalanceAfterClose = None
            /\ closed_order_ids_pending_pl' = Append(closed_order_ids_pending_pl, X)
            /\ DOMAIN open_positions' = (DOMAIN open_positions) \ {X}
      ]_vars

\* A close of an id never opened, then an open and a close of another id.
C13_Witness ==
    /\ Len(journal) = 3
    /\ journal[1].Action = "Close"
    /\ journal[2].Action = "Open"
    /\ journal[3].Action = "Close"
    /\ journal[2].OrderPosID = journal[3].OrderPosID
    /\ journal[1].OrderPosID # journal[3].OrderPosID
    /\ closed_order_ids_pending_pl = <<journal[1].OrderPosID[1], journal[3].OrderPosID[1]>>
    /\ DOMAIN open_positions = {}

\* ------------------------------------------------------------------ C14
ClosesOf(id) ==
    {i \in 1..Len(journal) : journal[i].OrderPosID = Some(id) /\ journal[i].Action = "Close"}

\* C14: a close-all confirmation of id X appends a "Close OK" entry exactly
\* when the journal has no Close entry of X; otherwise the journal keeps its
\* length and only the Notes of the last Close entry of X change, by one
\* appended note. The dicts, the pending ids and the running balance stay.
C14_CloseAllConfirmed ==
    [][ IsCloseAllOkStep =>
        LET X == line'.id
        IN  /\ UNCHANGED <<open_positions, pending_orders, closed_order_ids_pending_pl,
                           last_known_balance>>
            /\ IF ClosesOf(X) = {}
               THEN /\ Len(journal') = Len(journal) + 1
                    /\ SubSeq(journal', 1, Len(journal)) = journal
                    /\ journal'[Len(journal')].Action = "Close OK"
                    /\ journal'[Len(journal')].OrderPosID = Some(X)
               ELSE \E i \in ClosesOf(X) :
                      /\ \A k \in ClosesOf(X) : k <= i
                      /\ Len(journal'[i].Notes) = Len(journal[i].Notes) + 1
                      /\ journal'[i].Notes[Len(journal'[i].Notes)][2] = line'.price
                      /\ journal' = [journal EXCEPT
                                       ![i].Notes = Append(@, journal'[i].Notes[Len(journal'[i].Notes)])]
      ]_vars

\* The id was closed twice and then confirmed: the later Close entry has the note.
C14_Witness ==
    /\ Is(line, "Trade", "close_all_ok")
    /\ \E i \in ClosesOf(line.id) : \E k \in ClosesOf(line.id) :
         /\ i < k
         /\ Len(journal[i].Notes) = 1
         /\ Len(journal[k].Notes) = 2

\* ------------------------------------------------------------------ C15
\* The entries of the placements, fills and confirmed deletions of an id: each
\* such line handled appends one.
LifecycleEntriesOf(id) ==
    {i \in 1..Len(journal) : /\ journal[i].OrderPosID = Some(id)
                             /\ journal[i].Action \in {"Place/Mod", "Open", "Delete OK"}}

\* C15: while the run has not faulted, an id is a pending order exactly when
\* the last placement, fill or confirmed deletion handled for it is a
\* placement, and the dict then refers to that placement's entry; a delete
\* request leaves the dict as it is.
C15_PendingIsLastPlacement ==
    /\ [](pc # "failed" =>
            \A X \in Ids :
              LET L == LifecycleEntriesOf(X)
              IN  /\ (X \in DOMAIN pending_orders)
                       <=> (\E i \in L : /\ \A k \in L : k <= i
                                         /\ journal[i].Action = "Place/Mod")
                  /\ X \in DOMAIN pending_orders
                       => /\ pending_orders[X] \in L
                          /\ \A k \in L : k <= pending_orders[X])
    /\ [][ ( /\ pc = "run"
             /\ line_num' = line_num + 1
             /\ Is(line', "User_action", "delete_req") )
           => pending_orders' = pending_orders
         ]_vars

\* An id placed, then filled or deleted, then placed again with another TP.
C15_Witness ==
    \E X \in DOMAIN pending_orders :
      \E i \in LifecycleEntriesOf(X) : \E k \in LifecycleEntriesOf(X) :
        /\ i < k
        /\ k < pending_orders[X]
        /\ journal[i].Action = "Place/Mod"
        /\ journal[k].Action # "Place/Mod"
        /\ journal[i].TP # journal[pending_orders[X]].TP

\* ------------------------------------------------------------------ C16
\* C16: a balance update B handled while no running balance is known gives no
\* entry a P/L, emits no advisory and leaves the pending ids as they are; the
\* running balance becomes B and nothing else changes.
C16_FirstBalanceOnlyAdopted ==
    [][ (IsBalanceUpdateStep /\ last_known_balance = None)
        =>
        /\ last_known_balance' = Some(FloatOf(line'.balance))
        /\ UNCHANGED <<pc, journal, open_positions, pending_orders,
                       closed_order_ids_pending_pl, advisories, result>>
      ]_vars

\* The first balance of the run arrived in an update while two closes were pending.
C16_Witness ==
    /\ Len(balance_log) = 1
    /\ balance_log[1].Timestamp = line_num
    /\ balance_log[1].pre_balance = None
    /\ Len(balance_log[1].pre_queue) = 2
    /\ closed_order_ids_pending_pl = balance_log[1].pre_queue
    /\ last_known_balance = Some(balance_log[1].balance)

\* ------------------------------------------------------------------ C17
\* C17: a line that does not match the envelope, a Debug line, and a line
\* whose message matches no pattern tried at its level leave the journal, the
\* dicts, the pending ids and the running balance as they are and emit no
\* advisory.
C17_NoiseChangesNothing ==
    [][ ( /\ pc = "run"
          /\ line_num' = line_num + 1
          /\ \/ ~line'.env
             \/ line'.level = "Debug"
             \/ line'.msg \notin PatternsOf(line'.level) )
        =>
        UNCHANGED <<pc, journal, open_positions, pending_orders, last_known_balance,
                    closed_order_ids_pending_pl, advisories, result>>
      ]_vars

\* A "success delete" message on a Trade line for an id that is a pending order.
C17_Witness ==
    /\ Is(line, "Trade", "delete_ok")
    /\ line.id \in DOMAIN pending_orders
    /\ journal # <<>>
    /\ journal[Len(journal)].Timestamp = line_num - 1

\* ------------------------------------------------------------------ C18
Occurrences(q, x) == Cardinality({k \in 1..Len(q) : q[k] = x})

ClosesWithoutPl(id) ==
    {i \in 1..Len(journal) : /\ journal[i].OrderPosID = Some(id)
                             /\ journal[i].Action = "Close"
                             /\ journal[i].PL = None}

RECURSIVE SumPl(_)
SumPl(j) ==
    IF j = <<>> THEN 0
    ELSE SumPl(SubSeq(j, 1, Len(j) - 1))
         + (IF j[Len(j)].PL = None THEN 0 ELSE j[Len(j)].PL[1])

RECURSIVE SumDelta(_)
SumDelta(a) ==
    IF a = <<>> THEN 0
    ELSE SumDelta(SubSeq(a, 1, Len(a) - 1))
         + (IF a[Len(a)].delta = None THEN 0 ELSE a[Len(a)].delta[1])

\* The first balance taken as running balance: that of the first balance
\* update if it found none, else that of the first "account balance" line.
FirstAdopted ==
    IF balance_log # <<>> /\ balance_log[1].pre_balance = None
    THEN balance_log[1].balance
    ELSE first_balance_init[1]

\* C19: once a running balance is known, the P/L of all entries plus the
\* deltas of all advisories add up to the running balance minus the first
\* balance adopted; a balance update that changes a known running balance
\* either gives its delta to exactly one entry or reports it in exactly one
\* advisory, never both and never neither.
C19_DeltasConserved ==
    /\ [](last_known_balance # None =>
            SumPl(journal) + SumDelta(advisories) = last_known_balance[1] - FirstAdopted)
    /\ [][ ( /\ IsBalanceUpdateStep
             /\ last_known_balance # None
             /\ FloatOf(line'.balance) # last_known_balance[1] )
           =>
           LET d == FloatOf(line'.balance) - last_known_balance[1]
               got == {i \in 1..Len(journal) : journal'[i].PL # journal[i].PL}
           IN  /\ Len(journal') = Len(journal)
               /\ Len(advisories') >= Len(advisories)
               /\ Cardinality(got) + (Len(advisories') - Len(advisories)) = 1
               /\ \A i \in got : journal[i].PL = None /\ journal'[i].PL = Some(d)
               /\ \A k \in (Len(advisories) + 1)..Len(advisories') : advisories'[k].delta = Some(d)
         ]_vars

\* One delta went to a Close entry and another one to an advisory.
C19_Witness ==
    /\ \E i \in 1..Len(journal) : journal[i].PL # None /\ journal[i].PL # Some(0)
    /\ \E k \in 1..Len(advisories) : advisories[k].severity = "info"
    /\ last_known_balance # None
    /\ last_known_balance[1] # FirstAdopted

====
